---- MODULE Spec2Model ----
(***************************************************************************)
(* Collaborative canvas server: the per-room drawing state                 *)
(* (server/drawing-state.js), the room directory (server/rooms.js), the    *)
(* persistence manager with its debounced save timers and the socket       *)
(* event handlers of the server entry point.  One action per socket event  *)
(* handler or timer callback; every handler runs to completion (Node's     *)
(* single-threaded event loop).                                            *)
(***************************************************************************)
EXTENDS Integers, Sequences, FiniteSets, TLC

(***************************************************************************)
(* Bounds of the model.                                                    *)
(***************************************************************************)
NumConns == 2        \* socket connections; a socket id is never reused
NumClientIds == 1    \* distinct stroke ids a client may put in draw-start
MaxUuids == 1        \* stroke ids the server generates with uuidv4()
MaxStrokes == 2      \* draw-end is offered while metrics.totalStrokes is below
MaxPoints == 1       \* points of one stroke under Spec
MaxLongPoints == 3   \* points of one stroke under SpecPoints
MaxBatch == 2        \* points of one draw-move batch
MaxColorIndex == 2   \* join-room is offered while the room's colour counter is below
MaxJoins == 14       \* addUser calls for one room under SpecDirectory

PaletteSize == 12    \* USER_COLORS.length

Conns == 1..NumConns
ClientIds == 1..NumClientIds
\* a room id is a string, modelled as its sequence of characters;
\* the empty string is falsy in JavaScript, like an unset socket.roomId
RoomIds == {<<"a">>}
\* the room ids of the specification with two rooms
AllRoomIds == {<<"a">>, <<"b">>}
\* the room ids of the specification of the room files: "a" and "a/", a room id
\* with a character that getRoomFilePath does not keep
FileRoomIds == {<<"a">>, <<"a", "/">>}
\* every room id a client sends in some specification
ClientRoomIds == AllRoomIds \cup FileRoomIds
NoRoomId == <<>>
\* data.strokeId of a draw-start that carries none (undefined, falsy)
NoStrokeId == 0

\* The server never looks into a point: it stores and forwards it.  So a point is
\* modelled by a tag, its position in the stream of points the connection sends
\* for the stroke (the origin is 1): any loss, duplication or reordering of
\* points shows in the tags.  The batches a draw-move may carry after k points:
BatchesAfter(k) == {[i \in 1..n |-> k + i] : n \in 0..MaxBatch}
\* ... that keep the stroke within max points (k = 0: no stroke is under way)
BatchesWithin(k, max) == {b \in BatchesAfter(k) : k + Len(b) <= max}
Origin == <<1>>

VARIABLES
    dsRooms,      \* drawingState.rooms : roomId -> room drawing state
    uuidCount,    \* number of uuidv4() ids handed out so far
    rmRooms,      \* roomManager.rooms : roomId -> {users, colorIndex}
    sockRoom,     \* socket.roomId per connection (NoRoomId while unset)
    connected,    \* the connections whose socket is still open
    files,        \* persistence: file name -> saved strokes
    saveTimeouts, \* persistence.saveTimeouts : roomId -> pending timer
    totalStrokes, \* metrics.totalStrokes : draw-end events handled so far
    sentPoints,   \* history: per (room, connection) with a stroke under way, the
                  \* points its draw-start and draw-moves have carried so far
    undone,       \* history: per (room, connection), the stroke the connection's
                  \* last successful undo removed, until it redoes or completes a
                  \* stroke or the room is cleared
    ioRooms,      \* socket.rooms per connection: the socket.io rooms it has joined
    outbox,       \* the emit calls of the handler that ran last, in call order
    lastLeft,     \* history: per room that its last user has left with strokes in
                  \* the list, those strokes, until the next join to the room
    clients,      \* the browsers followed: connection -> canvas state and inbox
    clearLog,     \* history: per room followed, the completed strokes that a
                  \* clear-canvas has removed and no draw-end has made again
    joinLog       \* history: per room of the directory, the number of addUser
                  \* calls since its creation and, per user listed, the number
                  \* of the call that listed it

vars == <<dsRooms, uuidCount, rmRooms, sockRoom, connected, files, saveTimeouts,
          totalStrokes, sentPoints, undone, ioRooms, outbox, lastLeft, clients,
          clearLog, joinLog>>

(***************************************************************************)
(* JavaScript Map / object helpers: a Map is a function whose domain is    *)
(* the set of keys present.                                                *)
(***************************************************************************)
EmptyMap == <<>>
MapHas(m, k) == k \in DOMAIN m
MapSet(m, k, v) == [x \in DOMAIN m \cup {k} |-> IF x = k THEN v ELSE m[x]]
MapDelete(m, k) == [x \in DOMAIN m \ {k} |-> m[x]]

\* Array.prototype.findIndex: the first index whose element satisfies the
\* test, 0 when there is none (JavaScript's -1)
FindIndexById(arr, id) ==
    IF \E i \in 1..Len(arr) : arr[i].id = id
    THEN CHOOSE i \in 1..Len(arr) :
            /\ arr[i].id = id
            /\ \A j \in 1..(i - 1) : arr[j].id # id
    ELSE 0

\* Array.prototype.splice(index, 1): the array without the element at index
SpliceOut(arr, i) == [j \in 1..(Len(arr) - 1) |-> IF j < i THEN arr[j] ELSE arr[j + 1]]

\* Array.prototype.pop: the array without its last element
PopLast(arr) == SubSeq(arr, 1, Len(arr) - 1)

(***************************************************************************)
(* DrawingState (server/drawing-state.js).  Every operator takes the       *)
(* rooms map and returns the rooms map after the call.                     *)
(***************************************************************************)
NewRoomState ==
    [strokes |-> <<>>, activeStrokes |-> EmptyMap,
     undoStack |-> EmptyMap, redoStack |-> EmptyMap]

initRoom(rooms, roomId) ==
    IF MapHas(rooms, roomId) THEN rooms ELSE MapSet(rooms, roomId, NewRoomState)

\* getRoom creates the room when it is missing; the room it returns
getRoom(rooms, roomId) == initRoom(rooms, roomId)[roomId]

\* data.strokeId || uuidv4()
NewStrokeId(strokeId, uuids) ==
    IF strokeId # NoStrokeId THEN strokeId ELSE NumClientIds + uuids + 1

\* a bug startStroke could have: a stroke under way is kept and the new origin
\* is added to its points
startStroke_merges(rooms, roomId, userId, strokeId, pt, uuids) ==
    LET room == getRoom(rooms, roomId)
        stroke == [id |-> NewStrokeId(strokeId, uuids), userId |-> userId,
                   points |-> <<pt>>, completed |-> FALSE]
    IN  IF MapHas(room.activeStrokes, userId)
        THEN MapSet(rooms, roomId,
                    [room EXCEPT !.activeStrokes[userId].points = Append(@, pt)])
        ELSE MapSet(rooms, roomId,
                    [room EXCEPT !.activeStrokes = MapSet(@, userId, stroke)])

startStroke(rooms, roomId, userId, strokeId, pt, uuids) ==
    LET room == getRoom(rooms, roomId)
        stroke == [id |-> NewStrokeId(strokeId, uuids), userId |-> userId,
                   points |-> <<pt>>, completed |-> FALSE]
    IN  MapSet(rooms, roomId,
               [room EXCEPT !.activeStrokes = MapSet(@, userId, stroke)])

\* a bug addPoints could have: the stroke is looked up by owner in the list as
\* well, and a batch that finds no stroke under way extends the owner's last
\* completed stroke
addPoints_touchesCompleted(rooms, roomId, userId, points) ==
    LET room == getRoom(rooms, roomId)
        own == {i \in 1..Len(room.strokes) : room.strokes[i].userId = userId}
    IN  IF MapHas(room.activeStrokes, userId) /\ Len(points) > 0
        THEN MapSet(rooms, roomId,
                    [room EXCEPT !.activeStrokes[userId].points = @ \o points])
        ELSE IF own # {} /\ Len(points) > 0
        THEN LET last == CHOOSE i \in own : \A j \in own : j <= i
             IN  MapSet(rooms, roomId,
                        [room EXCEPT !.strokes[last].points = @ \o points])
        ELSE MapSet(rooms, roomId, room)

\* a bug addPoints could have: the batch goes in front of the points held
addPoints_prepend(rooms, roomId, userId, points) ==
    LET room == getRoom(rooms, roomId)
    IN  IF MapHas(room.activeStrokes, userId) /\ Len(points) > 0
        THEN MapSet(rooms, roomId,
                    [room EXCEPT !.activeStrokes[userId].points = points \o @])
        ELSE MapSet(rooms, roomId, room)

addPoints(rooms, roomId, userId, points) ==
    LET room == getRoom(rooms, roomId)
    IN  IF MapHas(room.activeStrokes, userId) /\ Len(points) > 0
        THEN MapSet(rooms, roomId,
                    [room EXCEPT !.activeStrokes[userId].points = @ \o points])
        ELSE MapSet(rooms, roomId, room)

\* a bug endStroke could have: the completed stroke goes in front of the list
endStroke_unshift(rooms, roomId, userId, strokeId) ==
    LET room == getRoom(rooms, roomId)
    IN  IF MapHas(room.activeStrokes, userId)
        THEN LET stroke == [room.activeStrokes[userId] EXCEPT !.completed = TRUE]
                 undoArr == IF MapHas(room.undoStack, userId)
                            THEN room.undoStack[userId] ELSE <<>>
             IN  MapSet(rooms, roomId,
                    [strokes |-> <<stroke>> \o room.strokes,
                     activeStrokes |-> MapDelete(room.activeStrokes, userId),
                     undoStack |-> MapSet(room.undoStack, userId,
                                         Append(undoArr, stroke.id)),
                     redoStack |-> MapSet(room.redoStack, userId, <<>>)])
        ELSE MapSet(rooms, roomId, room)

\* a bug endStroke could have: the redo stack is reset outside the `if (stroke)`
endStroke_resetsRedoAlways(rooms, roomId, userId, strokeId) ==
    LET room == getRoom(rooms, roomId)
    IN  IF MapHas(room.activeStrokes, userId)
        THEN LET stroke == [room.activeStrokes[userId] EXCEPT !.completed = TRUE]
                 undoArr == IF MapHas(room.undoStack, userId)
                            THEN room.undoStack[userId] ELSE <<>>
             IN  MapSet(rooms, roomId,
                    [strokes |-> Append(room.strokes, stroke),
                     activeStrokes |-> MapDelete(room.activeStrokes, userId),
                     undoStack |-> MapSet(room.undoStack, userId,
                                         Append(undoArr, stroke.id)),
                     redoStack |-> MapSet(room.redoStack, userId, <<>>)])
        ELSE MapSet(rooms, roomId,
                    [room EXCEPT !.redoStack = MapSet(@, userId, <<>>)])

\* a bug endStroke could have: the redo stack survives the new stroke
endStroke_keepsRedo(rooms, roomId, userId, strokeId) ==
    LET room == getRoom(rooms, roomId)
    IN  IF MapHas(room.activeStrokes, userId)
        THEN LET stroke == [room.activeStrokes[userId] EXCEPT !.completed = TRUE]
                 undoArr == IF MapHas(room.undoStack, userId)
                            THEN room.undoStack[userId] ELSE <<>>
             IN  MapSet(rooms, roomId,
                    [strokes |-> Append(room.strokes, stroke),
                     activeStrokes |-> MapDelete(room.activeStrokes, userId),
                     undoStack |-> MapSet(room.undoStack, userId,
                                         Append(undoArr, stroke.id)),
                     redoStack |-> room.redoStack])
        ELSE MapSet(rooms, roomId, room)

endStroke(rooms, roomId, userId, strokeId) ==
    LET room == getRoom(rooms, roomId)
    IN  IF MapHas(room.activeStrokes, userId)
        THEN LET stroke == [room.activeStrokes[userId] EXCEPT !.completed = TRUE]
                 undoArr == IF MapHas(room.undoStack, userId)
                            THEN room.undoStack[userId] ELSE <<>>
             IN  MapSet(rooms, roomId,
                    [strokes |-> Append(room.strokes, stroke),
                     activeStrokes |-> MapDelete(room.activeStrokes, userId),
                     undoStack |-> MapSet(room.undoStack, userId,
                                         Append(undoArr, stroke.id)),
                     redoStack |-> MapSet(room.redoStack, userId, <<>>)])
        ELSE MapSet(rooms, roomId, room)

getStrokes(rooms, roomId) ==
    IF MapHas(rooms, roomId) THEN rooms[roomId].strokes ELSE <<>>

setStrokes(rooms, roomId, strokes) ==
    MapSet(rooms, roomId, [getRoom(rooms, roomId) EXCEPT !.strokes = strokes])

\* what undo returns: reason "" on success
undoResult(rooms, roomId, userId) ==
    LET room == getRoom(rooms, roomId)
    IN  IF ~MapHas(room.undoStack, userId) \/ Len(room.undoStack[userId]) = 0
        THEN [success |-> FALSE, reason |-> "Nothing to undo", strokeId |-> NoStrokeId]
        ELSE LET strokeId == room.undoStack[userId][Len(room.undoStack[userId])]
             IN  IF FindIndexById(room.strokes, strokeId) = 0
                 THEN [success |-> FALSE, reason |-> "Stroke not found",
                       strokeId |-> NoStrokeId]
                 ELSE [success |-> TRUE, reason |-> "", strokeId |-> strokeId]

\* a bug undo could have: the removed stroke replaces the owner's redo stack
\* instead of going on top of it
undo_replacesRedoStack(rooms, roomId, userId) ==
    LET room == getRoom(rooms, roomId)
    IN  IF ~MapHas(room.undoStack, userId) \/ Len(room.undoStack[userId]) = 0
        THEN MapSet(rooms, roomId, room)
        ELSE LET userUndoStack == room.undoStack[userId]
                 strokeId == userUndoStack[Len(userUndoStack)]
                 popped == [room EXCEPT !.undoStack[userId] = PopLast(userUndoStack)]
                 strokeIndex == FindIndexById(room.strokes, strokeId)
             IN  IF strokeIndex = 0
                 THEN MapSet(rooms, roomId, popped)
                 ELSE LET stroke == room.strokes[strokeIndex]
                      IN  MapSet(rooms, roomId,
                             [popped EXCEPT
                                !.strokes = SpliceOut(room.strokes, strokeIndex),
                                !.redoStack = MapSet(@, userId, <<stroke>>)])

\* a bug undo could have: with nothing of the user's to undo, it falls back to
\* the newest stroke of the room
undo_fallsBackToNewest(rooms, roomId, userId) ==
    LET room == getRoom(rooms, roomId)
    IN  IF ~MapHas(room.undoStack, userId) \/ Len(room.undoStack[userId]) = 0
        THEN MapSet(rooms, roomId, [room EXCEPT !.strokes = PopLast(@)])
        ELSE LET userUndoStack == room.undoStack[userId]
                 strokeId == userUndoStack[Len(userUndoStack)]
                 popped == [room EXCEPT !.undoStack[userId] = PopLast(userUndoStack)]
                 strokeIndex == FindIndexById(room.strokes, strokeId)
             IN  IF strokeIndex = 0
                 THEN MapSet(rooms, roomId, popped)
                 ELSE LET stroke == room.strokes[strokeIndex]
                          redoArr == IF MapHas(room.redoStack, userId)
                                     THEN room.redoStack[userId] ELSE <<>>
                      IN  MapSet(rooms, roomId,
                             [popped EXCEPT
                                !.strokes = SpliceOut(room.strokes, strokeIndex),
                                !.redoStack = MapSet(@, userId, Append(redoArr, stroke))])

undo(rooms, roomId, userId) ==
    LET room == getRoom(rooms, roomId)
    IN  IF ~MapHas(room.undoStack, userId) \/ Len(room.undoStack[userId]) = 0
        THEN MapSet(rooms, roomId, room)
        ELSE LET userUndoStack == room.undoStack[userId]
                 strokeId == userUndoStack[Len(userUndoStack)]
                 popped == [room EXCEPT !.undoStack[userId] = PopLast(userUndoStack)]
                 strokeIndex == FindIndexById(room.strokes, strokeId)
             IN  IF strokeIndex = 0
                 THEN MapSet(rooms, roomId, popped)
                 ELSE LET stroke == room.strokes[strokeIndex]
                          redoArr == IF MapHas(room.redoStack, userId)
                                     THEN room.redoStack[userId] ELSE <<>>
                      IN  MapSet(rooms, roomId,
                             [popped EXCEPT
                                !.strokes = SpliceOut(room.strokes, strokeIndex),
                                !.redoStack = MapSet(@, userId, Append(redoArr, stroke))])

redoResult(rooms, roomId, userId) ==
    LET room == getRoom(rooms, roomId)
    IN  IF ~MapHas(room.redoStack, userId) \/ Len(room.redoStack[userId]) = 0
        THEN [success |-> FALSE, reason |-> "Nothing to redo", strokeId |-> NoStrokeId]
        ELSE [success |-> TRUE, reason |-> "",
              strokeId |-> room.redoStack[userId][Len(room.redoStack[userId])].id]

\* a bug redo could have: the stroke goes back in front (unshift for push)
redo_unshift(rooms, roomId, userId) ==
    LET room == getRoom(rooms, roomId)
    IN  IF ~MapHas(room.redoStack, userId) \/ Len(room.redoStack[userId]) = 0
        THEN MapSet(rooms, roomId, room)
        ELSE LET userRedoStack == room.redoStack[userId]
                 stroke == userRedoStack[Len(userRedoStack)]
                 undoArr == IF MapHas(room.undoStack, userId)
                            THEN room.undoStack[userId] ELSE <<>>
             IN  MapSet(rooms, roomId,
                    [room EXCEPT
                       !.redoStack[userId] = PopLast(userRedoStack),
                       !.strokes = <<stroke>> \o @,
                       !.undoStack = MapSet(@, userId, Append(undoArr, stroke.id))])

\* a bug redo could have: the id is not put back on the undo stack
redo_forgetsUndoStack(rooms, roomId, userId) ==
    LET room == getRoom(rooms, roomId)
    IN  IF ~MapHas(room.redoStack, userId) \/ Len(room.redoStack[userId]) = 0
        THEN MapSet(rooms, roomId, room)
        ELSE LET userRedoStack == room.redoStack[userId]
                 stroke == userRedoStack[Len(userRedoStack)]
             IN  MapSet(rooms, roomId,
                    [room EXCEPT
                       !.redoStack[userId] = PopLast(userRedoStack),
                       !.strokes = Append(@, stroke)])

redo(rooms, roomId, userId) ==
    LET room == getRoom(rooms, roomId)
    IN  IF ~MapHas(room.redoStack, userId) \/ Len(room.redoStack[userId]) = 0
        THEN MapSet(rooms, roomId, room)
        ELSE LET userRedoStack == room.redoStack[userId]
                 stroke == userRedoStack[Len(userRedoStack)]
                 undoArr == IF MapHas(room.undoStack, userId)
                            THEN room.undoStack[userId] ELSE <<>>
             IN  MapSet(rooms, roomId,
                    [room EXCEPT
                       !.redoStack[userId] = PopLast(userRedoStack),
                       !.strokes = Append(@, stroke),
                       !.undoStack = MapSet(@, userId, Append(undoArr, stroke.id))])

\* a bug clearRoom could have: the strokes under way survive the clear
clearRoom_keepsActive(rooms, roomId) ==
    MapSet(rooms, roomId,
           [NewRoomState EXCEPT !.activeStrokes = getRoom(rooms, roomId).activeStrokes])

\* a bug clearRoom could have: the undo stacks survive the clear
clearRoom_keepsUndoStacks(rooms, roomId) ==
    MapSet(rooms, roomId,
           [NewRoomState EXCEPT !.undoStack = getRoom(rooms, roomId).undoStack])

clearRoom(rooms, roomId) ==
    MapSet(rooms, roomId, NewRoomState)

\* a bug deleteRoom could have: the room's drawing state stays
deleteDrawingRoom_keepsRoom(rooms, roomId) == rooms

deleteDrawingRoom(rooms, roomId) == MapDelete(rooms, roomId)

(***************************************************************************)
(* RoomManager (server/rooms.js).                                          *)
(***************************************************************************)
createRoom(rooms, roomId) ==
    IF MapHas(rooms, roomId) THEN rooms
    ELSE MapSet(rooms, roomId, [users |-> EmptyMap, colorIndex |-> 0])

\* a bug addUser could have: the palette slot follows the number of users listed
NewUser_colorBySize(room, socketId) ==
    [id |-> socketId,
     username |-> Cardinality(DOMAIN room.users) + 1,
     color |-> Cardinality(DOMAIN room.users) % PaletteSize]

\* the user object addUser builds: the palette slot of the room's counter
\* and, for a join without a name, "User <size + 1>"
NewUser(room, socketId) ==
    [id |-> socketId,
     username |-> Cardinality(DOMAIN room.users) + 1,
     color |-> room.colorIndex % PaletteSize]

addUser(rooms, roomId, socketId) ==
    LET room == createRoom(rooms, roomId)[roomId]
    IN  MapSet(rooms, roomId,
               [users |-> MapSet(room.users, socketId, NewUser(room, socketId)),
                colorIndex |-> room.colorIndex + 1])

\* a bug removeUser could have: the user stays listed
removeUser_keepsUser(rooms, roomId, socketId) == rooms

removeUser(rooms, roomId, socketId) ==
    IF MapHas(rooms, roomId)
    THEN [rooms EXCEPT ![roomId].users = MapDelete(@, socketId)]
    ELSE rooms

\* Array.from(room.users.values()); the order of the array is left out
getUsers(rooms, roomId) ==
    IF MapHas(rooms, roomId)
    THEN {rooms[roomId].users[k] : k \in DOMAIN rooms[roomId].users}
    ELSE {}

isRoomEmpty(rooms, roomId) ==
    ~MapHas(rooms, roomId) \/ DOMAIN rooms[roomId].users = {}

\* a bug deleteRoom could have: the directory entry stays
deleteRoom_keepsRoom(rooms, roomId) == rooms

deleteRoom(rooms, roomId) == MapDelete(rooms, roomId)

(***************************************************************************)
(* PersistenceManager.                                                     *)
(***************************************************************************)
\* the characters getRoomFilePath keeps: [a-zA-Z0-9-_]
SafeChars == {"a", "b"}
IsSafeChar(ch) == ch \in SafeChars

\* roomId.replace(/[^a-zA-Z0-9-_]/g, '') : the file is named after what is left
getRoomFilePath(roomId) == SelectSeq(roomId, IsSafeChar)

saveRoom(fs, roomId, strokes) == MapSet(fs, getRoomFilePath(roomId), strokes)

\* null (here: the empty list, which join-room treats alike) without a file
loadRoom(fs, roomId) ==
    IF MapHas(fs, getRoomFilePath(roomId)) THEN fs[getRoomFilePath(roomId)] ELSE <<>>

\* a bug scheduleSave could have: one timer for all rooms, so that scheduling a
\* save for a room cancels the pending save of every other room
scheduleSave_singleTimer(timeouts, roomId) ==
    MapSet(EmptyMap, roomId, [live |-> TRUE, data |-> <<>>])

\* A pending timer holds the array it was given.  live: that array is still
\* the room's strokes array, so the write sees every later push and splice;
\* otherwise the room has replaced its array and data is what the old one held.
scheduleSave(timeouts, roomId) ==
    MapSet(timeouts, roomId, [live |-> TRUE, data |-> <<>>])

\* a bug the persistence could have: the pending save is cancelled when the
\* room's array is replaced or dropped
DetachArray_cancels(timeouts, roomId, oldStrokes) == MapDelete(timeouts, roomId)

\* the room's strokes array is replaced (clearRoom, setStrokes) or dropped
\* (deleteRoom): a pending timer keeps the old array with its contents
DetachArray(timeouts, roomId, oldStrokes) ==
    IF MapHas(timeouts, roomId) /\ timeouts[roomId].live
    THEN MapSet(timeouts, roomId, [live |-> FALSE, data |-> oldStrokes])
    ELSE timeouts

LogDrop(log, keys) == [k \in DOMAIN log \ keys |-> log[k]]

\* history of clears: what clearRoom removes from a room that is followed (the
\* list and the redo stacks), and what endStroke completes (a stroke equal to a
\* cleared one is a new stroke)
LogCleared(log, roomId, room) ==
    IF MapHas(log, roomId)
    THEN [log EXCEPT ![roomId] =
            @ \cup {room.strokes[i] : i \in 1..Len(room.strokes)}
              \cup UNION {{room.redoStack[u][i] : i \in 1..Len(room.redoStack[u])} :
                             u \in DOMAIN room.redoStack}]
    ELSE log
LogCompleted(log, roomId, room, userId) ==
    IF MapHas(log, roomId) /\ MapHas(room.activeStrokes, userId)
    THEN [log EXCEPT ![roomId] =
            @ \ {[room.activeStrokes[userId] EXCEPT !.completed = TRUE]}]
    ELSE log

\* the element a list lost, by comparing the list before and after
RemovedStroke(before, after) ==
    before[CHOOSE i \in 1..Len(before) : SpliceOut(before, i) = after]

(***************************************************************************)
(* socket.io emits.  An emit call is recorded with its event name, the     *)
(* connections it is delivered to and its payload.                         *)
(***************************************************************************)
\* the connections in a socket.io room
IoRoom(joined, roomId) == {d \in Conns : roomId \in joined[d]}

\* socket.emit(event, data): to the socket itself
EmitToSocket(c, event, data) == [event |-> event, to |-> {c}, data |-> data]

\* a bug the broadcasts could have: the sender gets its own broadcast back
EmitToOthers_echo(joined, c, roomId, event, data) ==
    [event |-> event, to |-> IoRoom(joined, roomId), data |-> data]

\* socket.to(roomId).emit(event, data): to the room, the sender left out
EmitToOthers(joined, c, roomId, event, data) ==
    [event |-> event, to |-> IoRoom(joined, roomId) \ {c}, data |-> data]

\* io.to(roomId).emit(event, data): to the whole room
EmitToRoom(joined, roomId, event, data) ==
    [event |-> event, to |-> IoRoom(joined, roomId), data |-> data]

(***************************************************************************)
(* Socket event handlers of the server entry point.                        *)
(***************************************************************************)
(***************************************************************************)
(* The browser of a connection (client: CanvasEngine and the App's socket  *)
(* callbacks).  clients follows the browsers of the connections in its     *)
(* domain: none under Spec, SpecPoints, SpecRooms and SpecApi, all of them *)
(* under SpecView.  A browser that is followed does the local part of an   *)
(* event in the step in which the server handles the event, and takes the  *)
(* messages emitted to it from its inbox, one at a time, in emit order.    *)
(***************************************************************************)
NoUserId == 0

\* this.currentStroke = null
NullStroke == [id |-> NoStrokeId, userId |-> NoUserId, points |-> <<>>]

\* wsUserId is the socket client's userId; canvas tells whether the App has
\* made its CanvasEngine (this.canvas), whose fields are the four that follow
NewClient ==
    [wsUserId |-> NoUserId, canvas |-> FALSE,
     userId |-> NoUserId, strokes |-> <<>>, activeRemoteStrokes |-> EmptyMap,
     isDrawing |-> FALSE, currentStroke |-> NullStroke, inbox |-> <<>>]

\* App.initCanvas, then canvas.setUserId(ws.getUserId()): the timeout that
\* connectToRoom sets once the state-sync has resolved connect()
initCanvas(client) ==
    [client EXCEPT !.canvas = TRUE, !.userId = client.wsUserId,
                   !.strokes = <<>>, !.activeRemoteStrokes = EmptyMap,
                   !.isDrawing = FALSE, !.currentStroke = NullStroke]

handlePointerDown(client, strokeId) ==
    [client EXCEPT !.isDrawing = TRUE,
                   !.currentStroke = [id |-> strokeId, userId |-> client.userId,
                                      points |-> Origin]]

handlePointerMove(client, points) ==
    IF ~client.isDrawing \/ client.currentStroke = NullStroke THEN client
    ELSE [client EXCEPT !.currentStroke.points = @ \o points]

handlePointerUp(client) ==
    IF ~client.isDrawing THEN client
    ELSE [client EXCEPT
            !.isDrawing = FALSE,
            !.strokes = IF client.currentStroke # NullStroke
                           /\ Len(client.currentStroke.points) > 0
                        THEN Append(@, client.currentStroke) ELSE @,
            !.currentStroke = NullStroke]

handleRemoteStrokeStart(client, userId, stroke) ==
    [client EXCEPT !.activeRemoteStrokes =
        MapSet(@, userId, [id |-> stroke.id, userId |-> userId,
                           points |-> <<stroke.points[1]>>])]

handleRemoteStrokeMove(client, userId, points) ==
    IF ~MapHas(client.activeRemoteStrokes, userId) THEN client
    ELSE [client EXCEPT !.activeRemoteStrokes[userId].points = @ \o points]

handleRemoteStrokeEnd(client, userId) ==
    IF ~MapHas(client.activeRemoteStrokes, userId) THEN client
    ELSE [client EXCEPT
            !.strokes = Append(@, client.activeRemoteStrokes[userId]),
            !.activeRemoteStrokes = MapDelete(@, userId)]

\* CanvasEngine.setStrokes
canvasSetStrokes(client, strokes) == [client EXCEPT !.strokes = strokes]

\* CanvasEngine.clearCanvas
clearCanvas(client) ==
    [client EXCEPT !.strokes = <<>>, !.activeRemoteStrokes = EmptyMap]

\* the socket client's listener and the App's callback for a message of the
\* server; every callback is skipped while the App has no canvas
OnMessage(client, msg) ==
    CASE msg.event = "state-sync" ->
            IF client.canvas
            THEN canvasSetStrokes([client EXCEPT !.wsUserId = msg.data.userId,
                                                 !.userId = msg.data.userId],
                                  msg.data.strokes)
            ELSE [client EXCEPT !.wsUserId = msg.data.userId]
      [] ~client.canvas -> client
      [] msg.event = "stroke-start" ->
            handleRemoteStrokeStart(client, msg.data.userId, msg.data.stroke)
      [] msg.event = "stroke-move" ->
            handleRemoteStrokeMove(client, msg.data.userId, msg.data.points)
      [] msg.event = "stroke-end" ->
            handleRemoteStrokeEnd(client, msg.data.userId)
      [] msg.event \in {"undo-performed", "redo-performed"} ->
            canvasSetStrokes(client, msg.data.strokes)
      [] msg.event = "canvas-cleared" -> clearCanvas(client)
      [] OTHER -> client

\* the emits of a handler, put in the inboxes of the browsers they go to
Posted(cl, emits) ==
    [d \in DOMAIN cl |->
        LET IsForD(e) == d \in e.to
        IN  [cl[d] EXCEPT !.inbox = @ \o SelectSeq(emits, IsForD)]]

\* the local part of an event at the browser of connection c
PointerDownAt(cl, c, strokeId) ==
    IF MapHas(cl, c) THEN [cl EXCEPT ![c] = handlePointerDown(@, strokeId)] ELSE cl
PointerMoveAt(cl, c, points) ==
    IF MapHas(cl, c) THEN [cl EXCEPT ![c] = handlePointerMove(@, points)] ELSE cl
PointerUpAt(cl, c) ==
    IF MapHas(cl, c) THEN [cl EXCEPT ![c] = handlePointerUp(@)] ELSE cl

InitServer ==
    /\ dsRooms = EmptyMap
    /\ uuidCount = 0
    /\ rmRooms = EmptyMap
    /\ sockRoom = [c \in Conns |-> NoRoomId]
    /\ connected = Conns
    /\ files = EmptyMap
    /\ saveTimeouts = EmptyMap
    /\ totalStrokes = 0
    /\ sentPoints = EmptyMap
    /\ undone = EmptyMap
    /\ ioRooms = [c \in Conns |-> {}]
    /\ outbox = <<>>
    /\ lastLeft = EmptyMap
    /\ joinLog = EmptyMap

Init == InitServer /\ clients = EmptyMap /\ clearLog = EmptyMap

\* a bug join-room could have: saved strokes are loaded over the strokes of a
\* room that has some
hydrates_always(rooms, fs, roomId) == Len(loadRoom(fs, roomId)) > 0

\* whether join-room loads the saved strokes into the room: the room's strokes
\* are empty and the file holds some
hydrates(rooms, fs, roomId) ==
    Len(getStrokes(rooms, roomId)) = 0 /\ Len(loadRoom(fs, roomId)) > 0

\* a bug join-room could have: the user-joined goes to the whole room
JoinEmits_joinedToAll(c, roomId, rooms, directory, joined) ==
    LET user == directory[roomId].users[c]
    IN  <<EmitToSocket(c, "state-sync",
                       [strokes |-> getStrokes(rooms, roomId),
                        users |-> getUsers(directory, roomId),
                        userId |-> c, userColor |-> user.color]),
          EmitToRoom(joined, roomId, "user-joined",
                     [userId |-> c, username |-> user.username,
                      color |-> user.color])>>

\* the emits of join-room, from the state the handler has built: the state-sync
\* to the socket and the user-joined to the others in the socket.io room
JoinEmits(c, roomId, rooms, directory, joined) ==
    LET user == directory[roomId].users[c]
    IN  <<EmitToSocket(c, "state-sync",
                       [strokes |-> getStrokes(rooms, roomId),
                        users |-> getUsers(directory, roomId),
                        userId |-> c, userColor |-> user.color]),
          EmitToOthers(joined, c, roomId, "user-joined",
                       [userId |-> c, username |-> user.username,
                        color |-> user.color])>>

\* socket.on('join-room')
JoinRoom(c, roomId) ==
    /\ c \in connected
    /\ ioRooms' = [ioRooms EXCEPT ![c] = @ \cup {roomId}]
    /\ MapHas(rmRooms, roomId) => rmRooms[roomId].colorIndex < MaxColorIndex
    /\ rmRooms' = addUser(rmRooms, roomId, c)
    /\ LET inited == initRoom(dsRooms, roomId)
           savedStrokes == loadRoom(files, roomId)
           hydrate == hydrates(inited, files, roomId)
       IN  /\ dsRooms' = IF hydrate THEN setStrokes(inited, roomId, savedStrokes)
                         ELSE inited
           /\ saveTimeouts' = IF hydrate THEN DetachArray(saveTimeouts, roomId, <<>>)
                              ELSE saveTimeouts
    /\ outbox' = JoinEmits(c, roomId, dsRooms', rmRooms', ioRooms')
    /\ sockRoom' = [sockRoom EXCEPT ![c] = roomId]
    /\ lastLeft' = LogDrop(lastLeft, {roomId})
    /\ UNCHANGED <<uuidCount, connected, files, totalStrokes, sentPoints, undone>>
    /\ clients' = Posted(clients, outbox')
    /\ UNCHANGED clearLog
    /\ UNCHANGED joinLog

\* socket.on('draw-start')
DrawStart(c, strokeId) ==
    /\ c \in connected
    /\ LET roomId == sockRoom[c]
       IN  IF roomId = NoRoomId
           THEN UNCHANGED <<dsRooms, uuidCount, sentPoints>> /\ outbox' = <<>>
           ELSE /\ strokeId = NoStrokeId => uuidCount < MaxUuids
                /\ dsRooms' = startStroke(dsRooms, roomId, c, strokeId, Origin[1], uuidCount)
                /\ uuidCount' = IF strokeId = NoStrokeId THEN uuidCount + 1
                                ELSE uuidCount
                /\ sentPoints' = MapSet(sentPoints, <<roomId, c>>, Origin)
                /\ outbox' = <<EmitToOthers(ioRooms, c, roomId, "stroke-start",
                                  [userId |-> c,
                                   stroke |-> dsRooms'[roomId].activeStrokes[c]])>>
    /\ UNCHANGED <<lastLeft, rmRooms, sockRoom, connected, files, saveTimeouts, totalStrokes,
                   undone, ioRooms>>
    /\ clients' = Posted(PointerDownAt(clients, c, strokeId), outbox')
    /\ UNCHANGED clearLog
    /\ UNCHANGED joinLog

\* the number of points the connection has sent for its stroke under way
SentSoFar(c) ==
    IF MapHas(sentPoints, <<sockRoom[c], c>>) THEN Len(sentPoints[<<sockRoom[c], c>>])
    ELSE 0

\* socket.on('draw-move'); the handler forwards data.strokeId unread, and so
\* does the model leave it out of the message
DrawMove(c, points) ==
    /\ c \in connected
    /\ LET roomId == sockRoom[c]
       IN  IF roomId = NoRoomId
           THEN UNCHANGED <<dsRooms, sentPoints>> /\ outbox' = <<>>
           ELSE /\ dsRooms' = addPoints(dsRooms, roomId, c, points)
                /\ sentPoints' = IF MapHas(sentPoints, <<roomId, c>>)
                                 THEN [sentPoints EXCEPT ![<<roomId, c>>] = @ \o points]
                                 ELSE sentPoints
                /\ outbox' = <<EmitToOthers(ioRooms, c, roomId, "stroke-move",
                                  [userId |-> c, points |-> points])>>
    /\ UNCHANGED <<lastLeft, uuidCount, rmRooms, sockRoom, connected, files, saveTimeouts,
                   totalStrokes, undone, ioRooms>>
    /\ clients' = Posted(PointerMoveAt(clients, c, points), outbox')
    /\ UNCHANGED clearLog
    /\ UNCHANGED joinLog

\* socket.on('draw-end')
DrawEnd(c, strokeId) ==
    /\ c \in connected
    /\ LET roomId == sockRoom[c]
       IN  IF roomId = NoRoomId
           THEN UNCHANGED <<dsRooms, saveTimeouts, totalStrokes, sentPoints, undone>>
                /\ outbox' = <<>>
           ELSE /\ totalStrokes < MaxStrokes
                /\ dsRooms' = endStroke(dsRooms, roomId, c, strokeId)
                /\ totalStrokes' = totalStrokes + 1
                /\ saveTimeouts' = scheduleSave(saveTimeouts, roomId)
                /\ sentPoints' = LogDrop(sentPoints, {<<roomId, c>>})
                /\ undone' = IF MapHas(sentPoints, <<roomId, c>>)
                             THEN LogDrop(undone, {<<roomId, c>>}) ELSE undone
                /\ outbox' = <<EmitToOthers(ioRooms, c, roomId, "stroke-end",
                                  [userId |-> c, strokeId |-> strokeId])>>
    /\ UNCHANGED <<lastLeft, uuidCount, rmRooms, sockRoom, connected, files, ioRooms>>
    /\ clients' = Posted(PointerUpAt(clients, c), outbox')
    /\ clearLog' = IF sockRoom[c] = NoRoomId THEN clearLog
                  ELSE LogCompleted(clearLog, sockRoom[c], getRoom(dsRooms, sockRoom[c]), c)
    /\ UNCHANGED joinLog

\* a bug cursor-move could have: no `if (!roomId) return`
CursorMove_noGuard(c) ==
    /\ c \in connected
    /\ outbox' = <<EmitToOthers(ioRooms, c, sockRoom[c], "cursor-update",
                                [userId |-> c])>>
    /\ UNCHANGED <<lastLeft, dsRooms, uuidCount, rmRooms, sockRoom, connected, files,
                   saveTimeouts, totalStrokes, sentPoints, undone, ioRooms>>
    /\ clients' = Posted(clients, outbox')
    /\ UNCHANGED clearLog
    /\ UNCHANGED joinLog

\* socket.on('cursor-move'): a broadcast, no state of the server changes; x and
\* y are forwarded unread and left out of the message
CursorMove(c) ==
    /\ c \in connected
    /\ outbox' = IF sockRoom[c] = NoRoomId THEN <<>>
                 ELSE <<EmitToOthers(ioRooms, c, sockRoom[c], "cursor-update",
                                     [userId |-> c])>>
    /\ UNCHANGED <<lastLeft, dsRooms, uuidCount, rmRooms, sockRoom, connected, files,
                   saveTimeouts, totalStrokes, sentPoints, undone, ioRooms>>
    /\ clients' = Posted(clients, outbox')
    /\ UNCHANGED clearLog
    /\ UNCHANGED joinLog

\* a bug the undo handler could have: the snapshot goes to the others only
UndoEmits_toOthers(joined, c, roomId, result, rooms) ==
    IF result.success
    THEN <<EmitToOthers(joined, c, roomId, "undo-performed",
                        [userId |-> c, strokes |-> getStrokes(rooms, roomId)])>>
    ELSE <<>>

\* the emit of the undo handler, from what undo returned and the state it left
UndoEmits(joined, c, roomId, result, rooms) ==
    IF result.success
    THEN <<EmitToRoom(joined, roomId, "undo-performed",
                      [userId |-> c, strokes |-> getStrokes(rooms, roomId)])>>
    ELSE <<>>

\* socket.on('undo')
Undo(c) ==
    /\ c \in connected
    /\ LET roomId == sockRoom[c]
       IN  IF roomId = NoRoomId
           THEN UNCHANGED <<dsRooms, undone>> /\ outbox' = <<>>
           ELSE /\ dsRooms' = undo(dsRooms, roomId, c)
                /\ undone' = IF undoResult(dsRooms, roomId, c).success
                             THEN MapSet(undone, <<roomId, c>>,
                                         RemovedStroke(getStrokes(dsRooms, roomId),
                                                       getStrokes(dsRooms', roomId)))
                             ELSE undone
                /\ outbox' = UndoEmits(ioRooms, c, roomId,
                                       undoResult(dsRooms, roomId, c), dsRooms')
    /\ UNCHANGED <<lastLeft, uuidCount, rmRooms, sockRoom, connected, files, saveTimeouts,
                   totalStrokes, sentPoints, ioRooms>>
    /\ clients' = Posted(clients, outbox')
    /\ UNCHANGED clearLog
    /\ UNCHANGED joinLog

\* a bug the redo handler could have: the snapshot goes out whatever redo returned
RedoEmits_always(joined, c, roomId, result, rooms) ==
    <<EmitToRoom(joined, roomId, "redo-performed",
                 [userId |-> c, strokes |-> getStrokes(rooms, roomId)])>>

\* the emit of the redo handler, from what redo returned and the state it left
RedoEmits(joined, c, roomId, result, rooms) ==
    IF result.success
    THEN <<EmitToRoom(joined, roomId, "redo-performed",
                      [userId |-> c, strokes |-> getStrokes(rooms, roomId)])>>
    ELSE <<>>

\* socket.on('redo')
Redo(c) ==
    /\ c \in connected
    /\ LET roomId == sockRoom[c]
       IN  IF roomId = NoRoomId
           THEN UNCHANGED <<dsRooms, undone>> /\ outbox' = <<>>
           ELSE /\ dsRooms' = redo(dsRooms, roomId, c)
                /\ undone' = LogDrop(undone, {<<roomId, c>>})
                /\ outbox' = RedoEmits(ioRooms, c, roomId,
                                       redoResult(dsRooms, roomId, c), dsRooms')
    /\ UNCHANGED <<lastLeft, uuidCount, rmRooms, sockRoom, connected, files, saveTimeouts,
                   totalStrokes, sentPoints, ioRooms>>
    /\ clients' = Posted(clients, outbox')
    /\ UNCHANGED clearLog
    /\ UNCHANGED joinLog

\* socket.on('clear-canvas')
ClearCanvas(c) ==
    /\ c \in connected
    /\ LET roomId == sockRoom[c]
       IN  IF roomId = NoRoomId
           THEN UNCHANGED <<dsRooms, saveTimeouts, sentPoints, undone>>
                /\ outbox' = <<>>
           ELSE /\ dsRooms' = clearRoom(dsRooms, roomId)
                /\ saveTimeouts' = DetachArray(saveTimeouts, roomId,
                                               getStrokes(dsRooms, roomId))
                /\ sentPoints' = LogDrop(sentPoints, {roomId} \X Conns)
                /\ undone' = LogDrop(undone, {roomId} \X Conns)
                /\ outbox' = <<EmitToRoom(ioRooms, roomId, "canvas-cleared",
                                          [userId |-> c])>>
    /\ UNCHANGED <<lastLeft, uuidCount, rmRooms, sockRoom, connected, files, totalStrokes,
                   ioRooms>>
    /\ clients' = Posted(clients, outbox')
    /\ clearLog' = IF sockRoom[c] = NoRoomId THEN clearLog
                  ELSE LogCleared(clearLog, sockRoom[c], getRoom(dsRooms, sockRoom[c]))
    /\ UNCHANGED joinLog

\* socket.on('disconnect')
Disconnect(c) ==
    /\ c \in connected
    /\ connected' = connected \ {c}
    /\ ioRooms' = [ioRooms EXCEPT ![c] = {}]
    /\ outbox' = IF sockRoom[c] = NoRoomId THEN <<>>
                 ELSE <<EmitToOthers(ioRooms', c, sockRoom[c], "user-left",
                                     [userId |-> c])>>
    /\ LET roomId == sockRoom[c]
           left == removeUser(rmRooms, roomId, c)
           strokes == getStrokes(dsRooms, roomId)
       IN  IF roomId = NoRoomId
           THEN /\ sentPoints' = LogDrop(sentPoints, ClientRoomIds \X {c})
                /\ undone' = LogDrop(undone, ClientRoomIds \X {c})
                /\ UNCHANGED <<dsRooms, rmRooms, files, saveTimeouts, lastLeft>>
           ELSE IF isRoomEmpty(left, roomId)
                THEN /\ files' = IF Len(strokes) > 0
                                 THEN saveRoom(files, roomId, strokes) ELSE files
                     /\ dsRooms' = deleteDrawingRoom(dsRooms, roomId)
                     /\ rmRooms' = deleteRoom(left, roomId)
                     /\ saveTimeouts' = DetachArray(saveTimeouts, roomId, strokes)
                     /\ sentPoints' = LogDrop(sentPoints,
                                              ({roomId} \X Conns) \cup (ClientRoomIds \X {c}))
                     /\ undone' = LogDrop(undone,
                                          ({roomId} \X Conns) \cup (ClientRoomIds \X {c}))
                     /\ lastLeft' = IF Len(strokes) > 0
                                    THEN MapSet(lastLeft, roomId, strokes)
                                    ELSE lastLeft
                ELSE /\ rmRooms' = left
                     /\ sentPoints' = LogDrop(sentPoints, ClientRoomIds \X {c})
                     /\ undone' = LogDrop(undone, ClientRoomIds \X {c})
                     /\ UNCHANGED <<dsRooms, files, saveTimeouts, lastLeft>>
    /\ UNCHANGED <<uuidCount, sockRoom, totalStrokes>>
    /\ clients' = Posted(clients, outbox')
    /\ UNCHANGED clearLog
    /\ UNCHANGED joinLog

\* the setTimeout callback of scheduleSave
SaveTimerFires(roomId) ==
    /\ MapHas(saveTimeouts, roomId)
    /\ LET timer == saveTimeouts[roomId]
           strokes == IF timer.live THEN getStrokes(dsRooms, roomId) ELSE timer.data
       IN  files' = saveRoom(files, roomId, strokes)
    /\ saveTimeouts' = MapDelete(saveTimeouts, roomId)
    /\ outbox' = <<>>
    /\ UNCHANGED <<lastLeft, dsRooms, uuidCount, rmRooms, sockRoom, connected, totalStrokes,
                   sentPoints, undone, ioRooms>>
    /\ UNCHANGED clients
    /\ UNCHANGED clearLog
    /\ UNCHANGED joinLog

StrokeIds == 0..(NumClientIds + MaxUuids)

Next ==
    \/ \E c \in Conns, roomId \in RoomIds : JoinRoom(c, roomId)
    \/ \E c \in Conns, strokeId \in ClientIds \cup {NoStrokeId} : DrawStart(c, strokeId)
    \/ \E c \in Conns : \E points \in BatchesWithin(SentSoFar(c), MaxPoints) :
          DrawMove(c, points)
    \/ \E c \in Conns, strokeId \in StrokeIds : DrawEnd(c, strokeId)
    \/ \E c \in Conns : CursorMove(c)
    \/ \E c \in Conns : Undo(c)
    \/ \E c \in Conns : Redo(c)
    \/ \E c \in Conns : ClearCanvas(c)
    \/ \E c \in Conns : Disconnect(c)
    \/ \E roomId \in RoomIds : SaveTimerFires(roomId)

Spec == Init /\ [][Next]_vars

\* The socket handlers with longer strokes; every client names its strokes after
\* its connection, as the shipped client does (generateStrokeId).  The debounced
\* save stays pending throughout (its timer is not run): the files are written
\* by the save on last leave only.
NextPoints ==
    \/ \E c \in Conns, roomId \in RoomIds : JoinRoom(c, roomId)
    \/ \E c \in Conns : DrawStart(c, c)
    \/ \E c \in Conns : \E points \in BatchesWithin(SentSoFar(c), MaxLongPoints) :
          DrawMove(c, points)
    \/ \E c \in Conns : DrawEnd(c, c)
    \/ \E c \in Conns : CursorMove(c)
    \/ \E c \in Conns : Undo(c)
    \/ \E c \in Conns : Redo(c)
    \/ \E c \in Conns : ClearCanvas(c)
    \/ \E c \in Conns : Disconnect(c)

SpecPoints == Init /\ [][NextPoints]_vars

\* The socket handlers with two room ids: a connection may join either room,
\* and join again.  Every client names its strokes after its connection.  The
\* debounced save stays pending, no cursor moves and a stroke is its first point
\* (no draw-move).
NextRooms ==
    \/ \E c \in Conns, roomId \in AllRoomIds : JoinRoom(c, roomId)
    \/ \E c \in Conns : DrawStart(c, c)
    \/ \E c \in Conns : DrawEnd(c, c)
    \/ \E c \in Conns : Undo(c)
    \/ \E c \in Conns : Redo(c)
    \/ \E c \in Conns : ClearCanvas(c)
    \/ \E c \in Conns : Disconnect(c)

SpecRooms == Init /\ [][NextRooms]_vars

(***************************************************************************)
(* Properties.  The handlers pass their connection and socket.roomId to    *)
(* the DrawingState operations; the properties below apply an operation    *)
(* to the state reached and say what it returns and what it leaves.        *)
(***************************************************************************)
\* the connection is open and past a handler's `if (!roomId) return`
Bound(c) == c \in connected /\ sockRoom[c] # NoRoomId

\* the drawing state of the connection's room, and after an operation
RoomOf(c) == getRoom(dsRooms, sockRoom[c])
HasActive(c) == MapHas(RoomOf(c).activeStrokes, c)
StackOf(stacks, userId) == IF MapHas(stacks, userId) THEN stacks[userId] ELSE <<>>
IdsOf(strokes) == {strokes[i].id : i \in 1..Len(strokes)}
OwnersOf(strokes) == {strokes[i].userId : i \in 1..Len(strokes)}

\* C1: in every reachable state no stroke id occurs twice in a room's strokes,
\* and no stroke id occurs both in strokes and in some user's redo stack.
C1_StrokeIdsUnique ==
    \A r \in DOMAIN dsRooms :
        LET room == dsRooms[r]
        IN  /\ \A i, j \in 1..Len(room.strokes) :
                  i # j => room.strokes[i].id # room.strokes[j].id
            /\ \A u \in DOMAIN room.redoStack :
                  IdsOf(room.redoStack[u]) \cap IdsOf(room.strokes) = {}

\* C2: a successful undo by a connection removes from strokes exactly one
\* stroke, and that stroke is owned by the connection; every stroke of another
\* owner stays.
C2_UndoRemovesOwnStroke ==
    \A c \in Conns :
        (Bound(c) /\ undoResult(dsRooms, sockRoom[c], c).success) =>
            LET before == RoomOf(c).strokes
                after == undo(dsRooms, sockRoom[c], c)[sockRoom[c]].strokes
            IN  \E i \in 1..Len(before) :
                    /\ before[i].userId = c
                    /\ after = SpliceOut(before, i)

C4_PointsAreConcatenation ==
    \A k \in DOMAIN sentPoints :
        LET r == k[1]
            c == k[2]
            before == getStrokes(dsRooms, r)
        IN  \A strokeId \in StrokeIds :
                LET after == getStrokes(endStroke(dsRooms, r, c, strokeId), r)
                IN  /\ Len(after) = Len(before) + 1
                    /\ SubSeq(after, 1, Len(before)) = before
                    /\ after[Len(after)].points = sentPoints[k]
                    /\ after[Len(after)].userId = c
                    /\ after[Len(after)].completed

\* a stroke has grown to full length by draw-moves while a stroke of another
\* owner, itself grown by draw-moves, is already completed
C4_Witness ==
    \E k \in DOMAIN sentPoints :
        /\ Len(sentPoints[k]) = MaxLongPoints
        /\ \E i \in 1..Len(getStrokes(dsRooms, k[1])) :
              /\ getStrokes(dsRooms, k[1])[i].userId # k[2]
              /\ Len(getStrokes(dsRooms, k[1])[i].points) > 1

\* C5: for a connection with no stroke under way, addPoints with any batch
\* and endStroke with any stroke id leave the whole drawing state as it is.
C5_NoActiveStrokeNoOp ==
    \A c \in Conns :
        (Bound(c) /\ ~HasActive(c)) =>
            /\ \A points \in BatchesAfter(0) :
                  addPoints(dsRooms, sockRoom[c], c, points) = dsRooms
            /\ \A strokeId \in StrokeIds :
                  endStroke(dsRooms, sockRoom[c], c, strokeId) = dsRooms

\* a connection that has completed a stroke and has none under way, while
\* another connection is drawing
C5_Witness ==
    \E c \in Conns :
        /\ Bound(c) /\ ~HasActive(c)
        /\ Len(StackOf(RoomOf(c).undoStack, c)) > 0
        /\ Len(StackOf(RoomOf(c).redoStack, c)) > 0
        /\ DOMAIN RoomOf(c).activeStrokes # {}

C7_CompleteClearsOwnRedo ==
    \A c \in Conns :
        (Bound(c) /\ HasActive(c)) =>
            \A strokeId \in StrokeIds :
                LET before == RoomOf(c)
                    after == endStroke(dsRooms, sockRoom[c], c, strokeId)[sockRoom[c]]
                IN  /\ MapHas(after.redoStack, c)
                    /\ after.redoStack[c] = <<>>
                    /\ \A d \in Conns \ {c} :
                          /\ MapHas(after.redoStack, d) = MapHas(before.redoStack, d)
                          /\ StackOf(after.redoStack, d) = StackOf(before.redoStack, d)

\* a connection with a stroke under way and a stroke to redo, while another
\* connection has a stroke to redo as well
C7_Witness ==
    \E c \in Conns :
        /\ Bound(c) /\ HasActive(c)
        /\ Len(StackOf(RoomOf(c).redoStack, c)) > 0
        /\ \E d \in Conns \ {c} : Len(StackOf(RoomOf(c).redoStack, d)) > 0

\* C8: a redo by a connection whose redo stack is not empty succeeds, takes
\* the top stroke off that stack, appends it as the last element of strokes
\* and pushes its id as the new top of the connection's undo stack.
C8_RedoAppendsLast ==
    \A c \in Conns :
        (Bound(c) /\ Len(StackOf(RoomOf(c).redoStack, c)) > 0) =>
            LET before == RoomOf(c)
                top == before.redoStack[c][Len(before.redoStack[c])]
                result == redoResult(dsRooms, sockRoom[c], c)
                after == redo(dsRooms, sockRoom[c], c)[sockRoom[c]]
            IN  /\ result.success
                /\ result.strokeId = top.id
                /\ after.strokes = Append(before.strokes, top)
                /\ after.redoStack[c] = PopLast(before.redoStack[c])
                /\ MapHas(after.undoStack, c)
                /\ after.undoStack[c] = Append(StackOf(before.undoStack, c), top.id)

\* the scenario of the specification after U1's undo: strokes is [S2], S2 of
\* another owner, and U1's redo stack is [S1]
C8_Witness ==
    \E c \in Conns :
        /\ Bound(c)
        /\ Len(StackOf(RoomOf(c).redoStack, c)) = 1
        /\ RoomOf(c).redoStack[c][1].userId = c
        /\ StackOf(RoomOf(c).undoStack, c) = <<>>
        /\ Len(RoomOf(c).strokes) = 1
        /\ RoomOf(c).strokes[1].userId # c
        /\ RoomOf(c).strokes[1].id # RoomOf(c).redoStack[c][1].id

\* C9: undo by a connection whose undo stack is empty or absent returns the
\* failure 'Nothing to undo' and leaves the whole drawing state as it is.
C9_NothingToUndo ==
    \A c \in Conns :
        (Bound(c) /\ Len(StackOf(RoomOf(c).undoStack, c)) = 0) =>
            /\ ~undoResult(dsRooms, sockRoom[c], c).success
            /\ undoResult(dsRooms, sockRoom[c], c).reason = "Nothing to undo"
            /\ undo(dsRooms, sockRoom[c], c) = dsRooms

\* one connection whose undo stack is there and empty, another without an undo
\* stack, in a room that holds strokes
C9_Witness ==
    \E c, d \in Conns :
        /\ Bound(c) /\ Bound(d) /\ sockRoom[c] = sockRoom[d]
        /\ MapHas(RoomOf(c).undoStack, c) /\ RoomOf(c).undoStack[c] = <<>>
        /\ ~MapHas(RoomOf(c).undoStack, d)
        /\ Len(RoomOf(c).strokes) > 0

\* C10: clearRoom leaves no stroke, no stroke under way and no undo or redo
\* entry for any owner: right after it undo by any owner returns 'Nothing to
\* undo', redo 'Nothing to redo', and an endStroke by any owner adds nothing.
C10_ClearEmptiesEverything ==
    \A c \in Conns :
        Bound(c) =>
            LET r == sockRoom[c]
                cleared == clearRoom(dsRooms, r)
            IN  /\ cleared[r].strokes = <<>>
                /\ DOMAIN cleared[r].activeStrokes = {}
                /\ \A d \in Conns :
                      /\ StackOf(cleared[r].undoStack, d) = <<>>
                      /\ StackOf(cleared[r].redoStack, d) = <<>>
                      /\ ~undoResult(cleared, r, d).success
                      /\ undoResult(cleared, r, d).reason = "Nothing to undo"
                      /\ ~redoResult(cleared, r, d).success
                      /\ redoResult(cleared, r, d).reason = "Nothing to redo"
                      /\ \A strokeId \in StrokeIds :
                            getStrokes(endStroke(cleared, r, d, strokeId), r) = <<>>

\* a room with a completed stroke, a stroke to redo, a stroke under way of one
\* connection and the undo entry of another
C10_Witness ==
    \E c, d \in Conns :
        /\ c # d /\ Bound(c) /\ Bound(d) /\ sockRoom[c] = sockRoom[d]
        /\ Len(RoomOf(c).strokes) > 0
        /\ HasActive(d)
        /\ Len(StackOf(RoomOf(c).undoStack, c)) > 0
        /\ Len(StackOf(RoomOf(c).redoStack, d)) > 0

\* the number of entries of a list of strokes that carry the id
CountId(strokes, id) == Cardinality({i \in 1..Len(strokes) : strokes[i].id = id})

\* the number of undo-stack entries, over all owners of the room, that are the id
CountUndoEntries(room, id) ==
    LET entries == {<<u, i>> \in Conns \X (1..MaxStrokes) :
                       /\ MapHas(room.undoStack, u)
                       /\ i <= Len(room.undoStack[u])
                       /\ room.undoStack[u][i] = id}
    IN  Cardinality(entries)

\* C11: in every reachable state every id held in an undo stack is in the
\* room's strokes, counting multiplicity (an id held n times over the undo
\* stacks is on at least n strokes), and no undo of a joined connection
\* returns 'Stroke not found'.
C11_UndoStackFindable ==
    /\ \A r \in DOMAIN dsRooms : \A id \in StrokeIds :
           CountUndoEntries(dsRooms[r], id) <= CountId(dsRooms[r].strokes, id)
    /\ \A c \in Conns :
           Bound(c) => undoResult(dsRooms, sockRoom[c], c).reason # "Stroke not found"

\* two owners hold the same id on their undo stacks, in a room that has been
\* through a disconnect
C11_Witness ==
    \E c, d \in Conns :
        /\ c # d /\ Bound(c) /\ d \notin connected
        /\ Len(StackOf(RoomOf(c).undoStack, c)) > 0
        /\ Len(StackOf(RoomOf(c).undoStack, d)) > 0
        /\ RoomOf(c).undoStack[c][1] = RoomOf(c).undoStack[d][1]

\* every stroke of the list went through endStroke (stroke.completed = true)
AllCompleted(strokes) == \A i \in 1..Len(strokes) : strokes[i].completed

\* the events whose payload carries the room's strokes
SnapshotEvents == {"state-sync", "undo-performed", "redo-performed"}

\* C12: a stroke left under way by a disconnect is never completed: from the
\* disconnect on its activeStrokes entry stays as it is until a clear or the end
\* of the room drops it, and it is never moved to strokes.  No stroke that is
\* not completed is ever in strokes, in a redo stack, in a saved file, in the
\* list a pending save holds, or in the strokes of a state-sync, undo-performed
\* or redo-performed message; and a disconnected connection is in no room's
\* user list, nor in the users of a state-sync.
C12_AbandonedStrokeNeverAppears ==
    /\ [](/\ \A r \in DOMAIN dsRooms :
              /\ AllCompleted(dsRooms[r].strokes)
              /\ \A u \in DOMAIN dsRooms[r].redoStack :
                    AllCompleted(dsRooms[r].redoStack[u])
          /\ \A f \in DOMAIN files : AllCompleted(files[f])
          /\ \A r \in DOMAIN saveTimeouts : AllCompleted(saveTimeouts[r].data)
          /\ \A i \in 1..Len(outbox) :
                /\ outbox[i].event \in SnapshotEvents =>
                      AllCompleted(outbox[i].data.strokes)
                /\ outbox[i].event = "state-sync" =>
                      \A user \in outbox[i].data.users : user.id \in connected
          /\ \A r \in DOMAIN rmRooms :
                \A user \in getUsers(rmRooms, r) : user.id \in connected)
    /\ [][\A d \in Conns \ connected' : \A r \in DOMAIN dsRooms :
            MapHas(dsRooms[r].activeStrokes, d) =>
               \/ /\ MapHas(dsRooms', r)
                  /\ MapHas(dsRooms'[r].activeStrokes, d)
                  /\ dsRooms'[r].activeStrokes[d] = dsRooms[r].activeStrokes[d]
               \/ ~MapHas(dsRooms', r)
               \/ dsRooms'[r] = NewRoomState]_vars

\* a connection has disconnected with a stroke of three points under way; the
\* stroke is still in activeStrokes while another member has just been sent a
\* snapshot of the strokes, which are not empty
C12_Witness ==
    \E d \in Conns \ connected : \E r \in DOMAIN dsRooms :
        /\ MapHas(dsRooms[r].activeStrokes, d)
        /\ Len(dsRooms[r].activeStrokes[d].points) = MaxLongPoints
        /\ Len(dsRooms[r].strokes) > 0
        /\ \E i \in 1..Len(outbox) :
              /\ outbox[i].event \in SnapshotEvents
              /\ outbox[i].to # {}

\* C13: when the last user leaves a room whose strokes is not empty, the
\* handler writes the room's file once, with exactly those strokes in their
\* order; and the next join to that room id gets exactly those strokes in its
\* state-sync and as the room's strokes.
C13_LastLeaveSaveRoundTrip ==
    [][\A c \in Conns : \A r \in RoomIds :
          /\ (/\ sockRoom[c] = r
              /\ MapHas(rmRooms, r) /\ ~MapHas(rmRooms', r)
              /\ Len(getStrokes(dsRooms, r)) > 0
              /\ Disconnect(c))
                => /\ files' = saveRoom(files, r, getStrokes(dsRooms, r))
                   /\ loadRoom(files', r) = getStrokes(dsRooms, r)
          /\ (MapHas(lastLeft, r) /\ JoinRoom(c, r))
                => /\ outbox'[1].event = "state-sync"
                   /\ outbox'[1].data.strokes = lastLeft[r]
                   /\ getStrokes(dsRooms', r) = lastLeft[r]]_vars

\* the connections in a room: open sockets whose socket.roomId is the room
Members(roomId) == {d \in connected : sockRoom[d] = roomId}

\* C14: every undo and every redo that succeeds is followed by exactly one
\* message, undo-performed or redo-performed, that carries the room's strokes
\* as the operation left them (all of them, in list order) and goes to every
\* connection in the room, the originator included.
C14_UndoRedoBroadcastSnapshot ==
    [][\A c \in Conns :
          /\ (Bound(c) /\ undoResult(dsRooms, sockRoom[c], c).success /\ Undo(c))
                => /\ Len(outbox') = 1
                   /\ outbox'[1].event = "undo-performed"
                   /\ outbox'[1].data.strokes = getStrokes(dsRooms', sockRoom[c])
                   /\ outbox'[1].to = Members(sockRoom[c])
                   /\ c \in outbox'[1].to
          /\ (Bound(c) /\ redoResult(dsRooms, sockRoom[c], c).success /\ Redo(c))
                => /\ Len(outbox') = 1
                   /\ outbox'[1].event = "redo-performed"
                   /\ outbox'[1].data.strokes = getStrokes(dsRooms', sockRoom[c])
                   /\ outbox'[1].to = Members(sockRoom[c])
                   /\ c \in outbox'[1].to]_vars

\* an undo has just succeeded in a room of two connections and has left a
\* stroke of the other owner in the list
C14_Witness ==
    /\ Len(outbox) = 1
    /\ outbox[1].event = "undo-performed"
    /\ Cardinality(outbox[1].to) = 2
    /\ Len(outbox[1].data.strokes) > 0
    /\ OwnersOf(outbox[1].data.strokes) = Conns \ {outbox[1].data.userId}

\* C15: an undo or a redo that fails is followed by no message to any
\* connection, and a redo by a connection whose redo stack is empty or absent
\* fails with 'Nothing to redo' and leaves strokes and every stack as they were.
C15_FailedUndoRedoSilent ==
    [][\A c \in Conns :
          /\ (Bound(c) /\ ~undoResult(dsRooms, sockRoom[c], c).success /\ Undo(c))
                => outbox' = <<>>
          /\ (Bound(c) /\ ~redoResult(dsRooms, sockRoom[c], c).success /\ Redo(c))
                => /\ outbox' = <<>>
                   /\ dsRooms' = dsRooms
          /\ (Bound(c) /\ Len(StackOf(RoomOf(c).redoStack, c)) = 0)
                => /\ ~redoResult(dsRooms, sockRoom[c], c).success
                   /\ redoResult(dsRooms, sockRoom[c], c).reason = "Nothing to redo"
                   /\ redo(dsRooms, sockRoom[c], c) = dsRooms]_vars

\* no message has gone out of the last handler, in a room of two members with
\* strokes in the list, where one member has nothing to undo and nothing to
\* redo while the other has a stroke to redo
C15_Witness ==
    /\ outbox = <<>>
    /\ \E c, d \in Conns :
          /\ c # d /\ Bound(c) /\ Bound(d) /\ sockRoom[c] = sockRoom[d]
          /\ Len(StackOf(RoomOf(c).undoStack, c)) = 0
          /\ Len(StackOf(RoomOf(c).redoStack, c)) = 0
          /\ Len(StackOf(RoomOf(c).redoStack, d)) > 0
          /\ Len(RoomOf(c).strokes) > 0

C17_JoinStateSync ==
    [][\A c \in Conns : \A r \in RoomIds :
          JoinRoom(c, r) =>
            LET members == {d \in connected' : sockRoom'[d] = r}
            IN  /\ Len(outbox') = 2
                /\ outbox'[1].event = "state-sync"
                /\ outbox'[1].to = {c}
                /\ outbox'[1].data.strokes = dsRooms'[r].strokes
                /\ AllCompleted(outbox'[1].data.strokes)
                /\ {user.id : user \in outbox'[1].data.users} = members
                /\ c \in members
                /\ outbox'[1].data.userId = c
                /\ outbox'[1].data.userColor = rmRooms'[r].users[c].color
                /\ outbox'[2].event = "user-joined"
                /\ outbox'[2].to = members \ {c}
                /\ outbox'[2].data.userId = c
                /\ outbox'[2].data.color = rmRooms'[r].users[c].color]_vars

\* a connection has just joined a room where the other member has a stroke
\* under way and strokes are in the list
C17_Witness ==
    /\ Len(outbox) = 2
    /\ outbox[1].event = "state-sync"
    /\ Len(outbox[1].data.strokes) > 0
    /\ Cardinality(outbox[1].data.users) = 2
    /\ Cardinality(outbox[2].to) = 1
    /\ \E d \in outbox[2].to : HasActive(d)

\* C18: a join-room replaces the room's strokes only if the list is empty when
\* the join is handled, and then by the strokes load returns; a join to a room
\* whose strokes is not empty leaves the list as it is, whatever is saved.
C18_HydrateOnlyWhenEmpty ==
    [][\A c \in Conns : \A r \in RoomIds :
          JoinRoom(c, r) =>
            /\ Len(getStrokes(dsRooms, r)) > 0 =>
                  getStrokes(dsRooms', r) = getStrokes(dsRooms, r)
            /\ getStrokes(dsRooms', r) # getStrokes(dsRooms, r) =>
                  /\ Len(getStrokes(dsRooms, r)) = 0
                  /\ getStrokes(dsRooms', r) = loadRoom(files, r)
            /\ files' = files]_vars

\* a connection has just joined a room whose strokes is not empty while the
\* room's file holds a different, non-empty list
C18_Witness ==
    /\ Len(outbox) = 2
    /\ outbox[1].event = "state-sync"
    /\ \E r \in DOMAIN dsRooms :
          /\ Len(dsRooms[r].strokes) > 0
          /\ outbox[1].data.strokes = dsRooms[r].strokes
          /\ Len(loadRoom(files, r)) > 0
          /\ loadRoom(files, r) # dsRooms[r].strokes

\* C19: a disconnect that leaves its room without users writes the room's
\* strokes to the room's file if and only if the list is not empty, and in the
\* same step removes both the drawing state and the directory entry of the
\* room.  The join that creates the room again finds it fresh: no stroke under
\* way, no undo or redo stack, the joiner gets the first colour of the palette,
\* and strokes is what load returns (empty without a file).
C19_CleanupThenFreshRoom ==
    [][\A c \in Conns : \A r \in RoomIds :
          /\ (/\ sockRoom[c] = r
              /\ MapHas(rmRooms, r)
              /\ DOMAIN rmRooms[r].users \subseteq {c}
              /\ Disconnect(c))
                => /\ files' = IF Len(getStrokes(dsRooms, r)) > 0
                                THEN saveRoom(files, r, getStrokes(dsRooms, r))
                                ELSE files
                   /\ ~MapHas(dsRooms', r)
                   /\ ~MapHas(rmRooms', r)
          /\ (~MapHas(rmRooms, r) /\ JoinRoom(c, r))
                => /\ DOMAIN dsRooms'[r].activeStrokes = {}
                   /\ DOMAIN dsRooms'[r].undoStack = {}
                   /\ DOMAIN dsRooms'[r].redoStack = {}
                   /\ dsRooms'[r].strokes = loadRoom(files, r)
                   /\ rmRooms'[r].users[c].color = 0
                   /\ rmRooms'[r].colorIndex = 1
                   /\ DOMAIN rmRooms'[r].users = {c}]_vars

\* a connection has just joined a room that an earlier connection had left as
\* its last user, and its state-sync carries the strokes that connection drew
C19_Witness ==
    \E c \in connected : \E d \in Conns \ connected :
        /\ sockRoom[c] # NoRoomId /\ sockRoom[d] = sockRoom[c]
        /\ rmRooms[sockRoom[c]].colorIndex = 1
        /\ Len(outbox) = 2 /\ outbox[1].event = "state-sync"
        /\ Len(outbox[1].data.strokes) > 0
        /\ OwnersOf(outbox[1].data.strokes) = {d}

\* C20: in every state between two handlers a room id has a drawing-state
\* entry if and only if it has a directory entry.
C20_LifecycleCoupled ==
    DOMAIN dsRooms = DOMAIN rmRooms

\* a room has been torn down: a connection that was bound to it has left, its
\* strokes are in its file and neither entry is there
C20_Witness ==
    \E d \in Conns \ connected :
        /\ sockRoom[d] # NoRoomId
        /\ ~MapHas(dsRooms, sockRoom[d]) /\ ~MapHas(rmRooms, sockRoom[d])
        /\ Len(loadRoom(files, sockRoom[d])) > 0

\* C21: a join-room from a connection that is already bound to a room is
\* ignored: it changes no user list, no colour counter, no drawing state and
\* not the room the connection is bound to, and no message goes out.
C21_SecondJoinIgnored ==
    [][\A c \in Conns : \A r \in RoomIds :
          (Bound(c) /\ JoinRoom(c, r))
             => /\ rmRooms' = rmRooms
                /\ dsRooms' = dsRooms
                /\ sockRoom' = sockRoom
                /\ outbox' = <<>>]_vars

\* C22: the handlers of draw-start, draw-move, draw-end, cursor-move, undo,
\* redo, clear-canvas and disconnect, run for a connection that has not joined,
\* change no drawing state and no directory entry, write no file, schedule no
\* save and send no message; and a closed connection runs no handler: a step
\* never is an event of a connection that was closed before it.
C22_UnjoinedChangesNothing ==
    [][/\ \A c \in connected :
            (/\ sockRoom[c] = NoRoomId
             /\ \/ \E strokeId \in StrokeIds : DrawStart(c, strokeId)
                \/ \E points \in BatchesAfter(0) : DrawMove(c, points)
                \/ \E strokeId \in StrokeIds : DrawEnd(c, strokeId)
                \/ CursorMove(c) \/ Undo(c) \/ Redo(c) \/ ClearCanvas(c)
                \/ Disconnect(c))
               => /\ dsRooms' = dsRooms /\ rmRooms' = rmRooms
                  /\ files' = files /\ saveTimeouts' = saveTimeouts
                  /\ totalStrokes' = totalStrokes
                  /\ outbox' = <<>>
       /\ \A c \in Conns \ connected :
            /\ c \notin connected'
            /\ sockRoom'[c] = sockRoom[c]
            /\ ioRooms'[c] = {}
            /\ \A i \in 1..Len(outbox') :
                  /\ c \notin outbox'[i].to
                  /\ outbox'[i].data.userId # c]_vars

\* a connection that has not joined is open, and the last handler has sent
\* nothing, while the room of the other connection has strokes in its list, a
\* stroke under way and a save pending
C22_Witness ==
    /\ outbox = <<>>
    /\ \E c, d \in connected :
          /\ sockRoom[c] = NoRoomId
          /\ Bound(d) /\ HasActive(d)
          /\ Len(RoomOf(d).strokes) > 0
          /\ MapHas(saveTimeouts, sockRoom[d])

\* the step is a drawing, undo, redo, clear or disconnect event of the connection
DrawingEventOf(c) ==
    \/ DrawStart(c, c)
    \/ \E points \in BatchesAfter(SentSoFar(c)) : DrawMove(c, points)
    \/ DrawEnd(c, c)
    \/ Undo(c) \/ Redo(c) \/ ClearCanvas(c) \/ Disconnect(c)

\* C23: rooms are independent.  A draw-start, draw-move, draw-end, undo, redo,
\* clear or disconnect of a connection bound to a room, and the join of a
\* connection to a room, leave the drawing state (strokes, strokes under way,
\* stacks) and the directory entry (users, colour counter) of every other room
\* as they were, and send no message to a connection that is bound to another
\* room.
C23_RoomsIndependent ==
    [][\A c \in Conns : \A r1 \in AllRoomIds :
          \/ sockRoom[c] = r1 /\ DrawingEventOf(c)
          \/ sockRoom[c] = NoRoomId /\ JoinRoom(c, r1)
          => \A r2 \in AllRoomIds \ {r1} :
                /\ MapHas(dsRooms', r2) = MapHas(dsRooms, r2)
                /\ MapHas(dsRooms, r2) => dsRooms'[r2] = dsRooms[r2]
                /\ MapHas(rmRooms', r2) = MapHas(rmRooms, r2)
                /\ MapHas(rmRooms, r2) => rmRooms'[r2] = rmRooms[r2]
                /\ \A i \in 1..Len(outbox') :
                      outbox'[i].to \cap Members(r2) = {}]_vars

(***************************************************************************)
(* DrawingState as a class of its own (module.exports = DrawingState).     *)
(* Its public operations are its contract: SpecApi calls them directly,    *)
(* in any order, on one room, with any owner, and lets setStrokes put any  *)
(* short list of completed strokes.                                        *)
(***************************************************************************)
ApiRoom == <<"a">>

\* the completed strokes and the lists of them a caller may hand to setStrokes
ApiStrokes ==
    {[id |-> id, userId |-> u, points |-> Origin, completed |-> TRUE] :
        id \in ClientIds, u \in Conns}
ApiStrokeLists == {<<>>} \cup {<<s>> : s \in ApiStrokes}

\* the number of points the owner's stroke under way holds
ApiPointsOf(userId) ==
    IF MapHas(getRoom(dsRooms, ApiRoom).activeStrokes, userId)
    THEN Len(getRoom(dsRooms, ApiRoom).activeStrokes[userId].points)
    ELSE 0

ApiStartStroke(userId, strokeId) ==
    /\ strokeId = NoStrokeId => uuidCount < MaxUuids
    /\ dsRooms' = startStroke(dsRooms, ApiRoom, userId, strokeId, Origin[1], uuidCount)
    /\ uuidCount' = IF strokeId = NoStrokeId THEN uuidCount + 1 ELSE uuidCount
    /\ UNCHANGED <<rmRooms, sockRoom, connected, files, saveTimeouts, totalStrokes,
                   sentPoints, undone, ioRooms, outbox, lastLeft>>
    /\ UNCHANGED clients
    /\ UNCHANGED clearLog
    /\ UNCHANGED joinLog

ApiAddPoints(userId, points) ==
    /\ dsRooms' = addPoints(dsRooms, ApiRoom, userId, points)
    /\ UNCHANGED <<uuidCount, rmRooms, sockRoom, connected, files, saveTimeouts,
                   totalStrokes, sentPoints, undone, ioRooms, outbox, lastLeft>>
    /\ UNCHANGED clients
    /\ UNCHANGED clearLog
    /\ UNCHANGED joinLog

\* offered while the owner's undo stack and the list are short
ApiEndStroke(userId, strokeId) ==
    /\ Len(getStrokes(dsRooms, ApiRoom)) < MaxStrokes
    /\ Len(StackOf(getRoom(dsRooms, ApiRoom).undoStack, userId)) < MaxStrokes
    /\ dsRooms' = endStroke(dsRooms, ApiRoom, userId, strokeId)
    /\ UNCHANGED <<uuidCount, rmRooms, sockRoom, connected, files, saveTimeouts,
                   totalStrokes, sentPoints, undone, ioRooms, outbox, lastLeft>>
    /\ UNCHANGED clients
    /\ UNCHANGED clearLog
    /\ UNCHANGED joinLog

ApiSetStrokes(strokes) ==
    /\ dsRooms' = setStrokes(dsRooms, ApiRoom, strokes)
    /\ UNCHANGED <<uuidCount, rmRooms, sockRoom, connected, files, saveTimeouts,
                   totalStrokes, sentPoints, undone, ioRooms, outbox, lastLeft>>
    /\ UNCHANGED clients
    /\ UNCHANGED clearLog
    /\ UNCHANGED joinLog

ApiUndo(userId) ==
    /\ dsRooms' = undo(dsRooms, ApiRoom, userId)
    /\ UNCHANGED <<uuidCount, rmRooms, sockRoom, connected, files, saveTimeouts,
                   totalStrokes, sentPoints, undone, ioRooms, outbox, lastLeft>>
    /\ UNCHANGED clients
    /\ UNCHANGED clearLog
    /\ UNCHANGED joinLog

ApiRedo(userId) ==
    /\ Len(getStrokes(dsRooms, ApiRoom)) < MaxStrokes
    /\ dsRooms' = redo(dsRooms, ApiRoom, userId)
    /\ UNCHANGED <<uuidCount, rmRooms, sockRoom, connected, files, saveTimeouts,
                   totalStrokes, sentPoints, undone, ioRooms, outbox, lastLeft>>
    /\ UNCHANGED clients
    /\ UNCHANGED clearLog
    /\ UNCHANGED joinLog

ApiClearRoom ==
    /\ dsRooms' = clearRoom(dsRooms, ApiRoom)
    /\ UNCHANGED <<uuidCount, rmRooms, sockRoom, connected, files, saveTimeouts,
                   totalStrokes, sentPoints, undone, ioRooms, outbox, lastLeft>>
    /\ UNCHANGED clients
    /\ UNCHANGED clearLog
    /\ UNCHANGED joinLog

NextApi ==
    \/ \E userId \in Conns, strokeId \in ClientIds \cup {NoStrokeId} :
          ApiStartStroke(userId, strokeId)
    \/ \E userId \in Conns :
          \E points \in BatchesWithin(ApiPointsOf(userId), MaxPoints + 1) :
             ApiAddPoints(userId, points)
    \/ \E userId \in Conns, strokeId \in StrokeIds : ApiEndStroke(userId, strokeId)
    \/ \E strokes \in ApiStrokeLists : ApiSetStrokes(strokes)
    \/ \E userId \in Conns : ApiUndo(userId)
    \/ \E userId \in Conns : ApiRedo(userId)
    \/ ApiClearRoom

SpecApi == Init /\ [][NextApi]_vars

C26_UndoRemovesLastMatch ==
    \A c \in Conns :
        (Bound(c) /\ undoResult(dsRooms, sockRoom[c], c).success) =>
            LET before == RoomOf(c).strokes
                strokeId == undoResult(dsRooms, sockRoom[c], c).strokeId
                after == undo(dsRooms, sockRoom[c], c)[sockRoom[c]].strokes
                last == CHOOSE i \in 1..Len(before) :
                            /\ before[i].id = strokeId
                            /\ \A j \in (i + 1)..Len(before) : before[j].id # strokeId
            IN  after = SpliceOut(before, last)

\* C27: a successful undo by a connection removes exactly one entry of strokes
\* and keeps the others in their order, pushes the removed stroke, points
\* included, as the new top of the connection's redo stack, and leaves the undo
\* and redo stacks of every other owner and all strokes under way as they were.
C27_UndoFrameEffect ==
    \A c \in Conns :
        (Bound(c) /\ undoResult(dsRooms, sockRoom[c], c).success) =>
            LET before == RoomOf(c)
                after == undo(dsRooms, sockRoom[c], c)[sockRoom[c]]
            IN  /\ \E i \in 1..Len(before.strokes) :
                      /\ after.strokes = SpliceOut(before.strokes, i)
                      /\ MapHas(after.redoStack, c)
                      /\ after.redoStack[c] =
                            Append(StackOf(before.redoStack, c), before.strokes[i])
                /\ MapDelete(after.undoStack, c) = MapDelete(before.undoStack, c)
                /\ MapDelete(after.redoStack, c) = MapDelete(before.redoStack, c)
                /\ after.activeStrokes = before.activeStrokes

\* a connection can undo the first of two strokes while the owner of the
\* second has an undo entry and a stroke under way
C27_Witness ==
    \E c, d \in Conns :
        /\ c # d /\ Bound(c) /\ Bound(d) /\ sockRoom[c] = sockRoom[d]
        /\ undoResult(dsRooms, sockRoom[c], c).success
        /\ Len(RoomOf(c).strokes) = 2
        /\ RoomOf(c).strokes[1].userId = c
        /\ RoomOf(c).strokes[2].userId = d
        /\ undo(dsRooms, sockRoom[c], c)[sockRoom[c]].strokes = <<RoomOf(c).strokes[2]>>
        /\ Len(StackOf(RoomOf(c).undoStack, d)) = 1
        /\ HasActive(d)

\* C28: undo is last-in first-out per owner.  The strokes a connection has
\* completed or redone and not undone are its entries of strokes, in that
\* order: a successful undo by the connection removes the last of them, so
\* that consecutive undos take them in reverse order.
C28_UndoLifoPerOwner ==
    \A c \in Conns :
        (Bound(c) /\ undoResult(dsRooms, sockRoom[c], c).success) =>
            LET before == RoomOf(c).strokes
                after == undo(dsRooms, sockRoom[c], c)[sockRoom[c]].strokes
            IN  \E i \in 1..Len(before) :
                    /\ before[i].userId = c
                    /\ \A j \in (i + 1)..Len(before) : before[j].userId # c
                    /\ after = SpliceOut(before, i)

\* the stroke a connection has under way, as endStroke stores it
Completed(c) == [RoomOf(c).activeStrokes[c] EXCEPT !.completed = TRUE]

\* C29: endStroke puts the completed stroke at the end of strokes and keeps
\* the strokes already there, in their order.  When two connections have a
\* stroke under way, whichever began first, the list ends with their strokes
\* in the order of the two draw-ends.
C29_CompletionOrder ==
    \A c \in Conns :
        (Bound(c) /\ HasActive(c)) =>
            LET r == sockRoom[c]
                afterC == endStroke(dsRooms, r, c, c)
            IN  /\ afterC[r].strokes = Append(RoomOf(c).strokes, Completed(c))
                /\ \A d \in Conns \ {c} :
                      (Bound(d) /\ sockRoom[d] = r /\ HasActive(d)) =>
                          endStroke(afterC, r, d, d)[r].strokes =
                             RoomOf(c).strokes \o <<Completed(c), Completed(d)>>

\* two connections have strokes under way, of different lengths, while the
\* list holds a stroke
C29_Witness ==
    \E c, d \in Conns :
        /\ c # d /\ Bound(c) /\ Bound(d) /\ sockRoom[c] = sockRoom[d]
        /\ HasActive(c) /\ HasActive(d)
        /\ Len(RoomOf(c).activeStrokes[c].points) > Len(RoomOf(c).activeStrokes[d].points)
        /\ Len(RoomOf(c).strokes) = 1
        /\ endStroke(dsRooms, sockRoom[c], c, c)[sockRoom[c]].strokes[2].userId = c

\* the completed strokes a room holds: those of the list and of the redo stacks
Done(room) ==
    {room.strokes[i] : i \in 1..Len(room.strokes)} \cup
    UNION {{room.redoStack[u][i] : i \in 1..Len(room.redoStack[u])} :
              u \in DOMAIN room.redoStack}

\* C30: a completed stroke is immutable.  addPoints, from the owner after its
\* draw-end or for the owner's next stroke (which here has the same id), leaves
\* the list and the redo stacks as they are; and whatever a step does, every
\* stroke the list and the redo stacks hold after it (id, owner, points) was
\* held before it, or is the stroke of a connection completed as it stood, or
\* comes from the room's file: no step puts an altered stroke there.
C30_CompletedStrokeImmutable ==
    /\ [](\A c \in Conns :
             Bound(c) =>
                \A points \in BatchesAfter(SentSoFar(c)) :
                    LET after == addPoints(dsRooms, sockRoom[c], c, points)[sockRoom[c]]
                    IN  /\ after.strokes = RoomOf(c).strokes
                        /\ after.redoStack = RoomOf(c).redoStack)
    /\ [][\A r \in DOMAIN dsRooms' :
             LET before == getRoom(dsRooms, r)
             IN  \A stroke \in Done(dsRooms'[r]) :
                    \/ stroke \in Done(before)
                    \/ \E c \in DOMAIN before.activeStrokes :
                          stroke = [before.activeStrokes[c] EXCEPT !.completed = TRUE]
                    \/ \E i \in 1..Len(loadRoom(files, r)) :
                          stroke = loadRoom(files, r)[i]]_vars

\* a connection has completed a stroke and sent points for its next stroke,
\* which has the same id and by now other points
C30_Witness ==
    \E c \in Conns :
        /\ Bound(c) /\ HasActive(c)
        /\ Len(RoomOf(c).activeStrokes[c].points) >= 2
        /\ \E i \in 1..Len(RoomOf(c).strokes) :
              /\ RoomOf(c).strokes[i].userId = c
              /\ RoomOf(c).strokes[i].id = RoomOf(c).activeStrokes[c].id
              /\ RoomOf(c).strokes[i].points # RoomOf(c).activeStrokes[c].points

(***************************************************************************)
(* The server with the browsers of its connections.  Under SpecView every  *)
(* connection's browser is followed; a browser joins once, makes its       *)
(* canvas after it has handled its state-sync, draws on its canvas,        *)
(* presses the pointer only when it is up and moves or releases it only    *)
(* when it is down.  Every stroke of a                                     *)
(* connection is named after the connection, and a draw-move carries the   *)
(* points buffered, at least one (startBatching).  A handler is offered    *)
(* while every inbox has room for its emit.                                *)
(***************************************************************************)
MaxInbox == 2

InitView ==
    InitServer /\ clients = [c \in Conns |-> NewClient] /\ clearLog = EmptyMap

InboxRoom == \A d \in DOMAIN clients : Len(clients[d].inbox) < MaxInbox

\* the browser has its canvas
OnCanvas(c) == Bound(c) /\ clients[c].canvas

InitCanvas(c) ==
    /\ clients[c].wsUserId # NoUserId
    /\ ~clients[c].canvas
    /\ clients' = [clients EXCEPT ![c] = initCanvas(@)]
    /\ UNCHANGED <<dsRooms, uuidCount, rmRooms, sockRoom, connected, files,
                   saveTimeouts, totalStrokes, sentPoints, undone, ioRooms, outbox,
                   lastLeft>>
    /\ UNCHANGED clearLog
    /\ UNCHANGED joinLog

ViewJoin(c) == InboxRoom /\ sockRoom[c] = NoRoomId /\ JoinRoom(c, ApiRoom)
ViewPointerDown(c) ==
    InboxRoom /\ OnCanvas(c) /\ ~clients[c].isDrawing /\ DrawStart(c, c)
ViewPointerMove(c, points) ==
    InboxRoom /\ OnCanvas(c) /\ clients[c].isDrawing /\ DrawMove(c, points)
ViewPointerUp(c) ==
    InboxRoom /\ OnCanvas(c) /\ clients[c].isDrawing /\ DrawEnd(c, c)
ViewUndo(c) == InboxRoom /\ OnCanvas(c) /\ Undo(c)
ViewRedo(c) == InboxRoom /\ OnCanvas(c) /\ Redo(c)
ViewClear(c) == InboxRoom /\ OnCanvas(c) /\ ClearCanvas(c)

\* the browser of c handles the oldest message of its inbox
Receive(c) ==
    /\ Len(clients[c].inbox) > 0
    /\ clients' = [clients EXCEPT
                      ![c] = OnMessage([@ EXCEPT !.inbox = Tail(@)],
                                       Head(clients[c].inbox))]
    /\ UNCHANGED <<dsRooms, uuidCount, rmRooms, sockRoom, connected, files,
                   saveTimeouts, totalStrokes, sentPoints, undone, ioRooms, outbox,
                   lastLeft>>
    /\ UNCHANGED clearLog
    /\ UNCHANGED joinLog

NextView ==
    \/ \E c \in Conns : ViewJoin(c)
    \/ \E c \in Conns : InitCanvas(c)
    \/ \E c \in Conns : ViewPointerDown(c)
    \/ \E c \in Conns :
          \E points \in BatchesWithin(Len(clients[c].currentStroke.points),
                                        MaxPoints + 1) \ {<<>>} :
             ViewPointerMove(c, points)
    \/ \E c \in Conns : ViewPointerUp(c)
    \/ \E c \in Conns : ViewUndo(c)
    \/ \E c \in Conns : ViewRedo(c)
    \/ \E c \in Conns : ViewClear(c)
    \/ \E c \in Conns : Receive(c)

SpecView == InitView /\ [][NextView]_vars

\* nothing is under way in the room: the server holds no stroke in progress, no
\* browser of the room has the pointer down or a message to handle, and every
\* browser of the room has its canvas
Quiescent(r) ==
    /\ MapHas(dsRooms, r)
    /\ DOMAIN dsRooms[r].activeStrokes = {}
    /\ \A c \in DOMAIN clients :
          sockRoom[c] = r =>
             /\ clients[c].inbox = <<>>
             /\ ~clients[c].isDrawing
             /\ clients[c].canvas

\* C24: view consistency.  Whenever a room is quiescent, the list of completed
\* strokes of every browser joined to the room holds exactly the stroke ids of
\* the server's strokes for the room.
C24_ViewConsistency ==
    \A r \in RoomIds :
        Quiescent(r) =>
            \A c \in DOMAIN clients :
                sockRoom[c] = r =>
                    IdsOf(clients[c].strokes) = IdsOf(dsRooms[r].strokes)

\* C31: startStroke for an owner who has a stroke under way replaces it.  The
\* new stroke under way has the new origin as its only point, the list and the
\* strokes under way of the other owners stay as they are, and what the
\* owner's next endStroke puts in the list is the new stroke alone: the old one
\* is gone, its points are in no stroke.  activeStrokes is a Map keyed by owner,
\* so an owner has one stroke under way at most.
C31_StartReplacesActive ==
    \A c \in Conns :
        (Bound(c) /\ HasActive(c)) =>
            LET r == sockRoom[c]
                before == RoomOf(c)
                started == startStroke(dsRooms, r, c, c, Origin[1], uuidCount)
                fresh == [id |-> c, userId |-> c, points |-> Origin, completed |-> FALSE]
            IN  /\ started[r].activeStrokes[c] = fresh
                /\ started[r].strokes = before.strokes
                /\ MapDelete(started[r].activeStrokes, c) =
                      MapDelete(before.activeStrokes, c)
                /\ endStroke(started, r, c, c)[r].strokes =
                      Append(before.strokes, [fresh EXCEPT !.completed = TRUE])
                /\ DOMAIN endStroke(started, r, c, c)[r].activeStrokes =
                      DOMAIN before.activeStrokes \ {c}

\* a connection has a stroke of several points under way while another
\* connection has one too
C31_Witness ==
    \E c, d \in Conns :
        /\ c # d /\ Bound(c) /\ Bound(d) /\ sockRoom[c] = sockRoom[d]
        /\ HasActive(c) /\ HasActive(d)
        /\ Len(RoomOf(c).activeStrokes[c].points) = MaxLongPoints
        /\ startStroke(dsRooms, sockRoom[c], c, c, Origin[1], uuidCount)
              [sockRoom[c]].activeStrokes[c].points = Origin

\* C32: a disconnect discards the owner's stroke under way: in every reachable
\* state, every owner of a stroke under way in a room is connected and bound
\* to that room.
C32_ActiveStrokeOwnersAreMembers ==
    \A r \in DOMAIN dsRooms :
        \A u \in DOMAIN dsRooms[r].activeStrokes :
            u \in connected /\ sockRoom[u] = r

\* C33: a join to a room that has a connected member leaves the room's strokes
\* as they are, also when the list is empty after a clear or after every
\* stroke was undone: saved strokes never replace the state of an active room.
C33_JoinKeepsLiveStrokes ==
    [][\A c \in Conns : \A r \in RoomIds :
          (Members(r) # {} /\ JoinRoom(c, r)) =>
              getStrokes(dsRooms', r) = getStrokes(dsRooms, r)]_vars

\* The socket handlers of Spec, with the history of clears kept for the room.
InitClear ==
    InitServer /\ clients = EmptyMap /\ clearLog = [r \in RoomIds |-> {}]

SpecClear == InitClear /\ [][Next]_vars

\* C34: a clear is lasting.  A stroke that was completed before a clear-canvas
\* of the room is never again in the room's strokes, whatever happens next:
\* pending saves firing, everybody leaving, somebody joining again.  (The
\* state-sync of a join carries the room's strokes.)
C34_ClearIsLasting ==
    \A r \in DOMAIN clearLog :
        \A i \in 1..Len(getStrokes(dsRooms, r)) :
            getStrokes(dsRooms, r)[i] \notin clearLog[r]

C36_SaveWritesCurrentStrokes ==
    [][\A r \in RoomIds :
          SaveTimerFires(r) =>
              /\ MapHas(files', getRoomFilePath(r))
              /\ files'[getRoomFilePath(r)] = getStrokes(dsRooms, r)]_vars

\* The socket handlers under the assumption that a pending timer fires.
SpecLive == Init /\ [][Next]_vars /\ \A r \in RoomIds : WF_vars(SaveTimerFires(r))

C38_UsersAreBoundMembers ==
    /\ \A r \in DOMAIN rmRooms :
          \A user \in getUsers(rmRooms, r) :
              user.id \in connected /\ sockRoom[user.id] = r
    /\ connected = {} => (DOMAIN rmRooms = {} /\ DOMAIN dsRooms = {})

(***************************************************************************)
(* The room files.  Two clients use the room ids "a" and "a/"; a stroke is  *)
(* its first point, every client names its strokes after its connection,   *)
(* and the debounced save runs.                                             *)
(***************************************************************************)
NextFiles ==
    \/ \E c \in Conns, roomId \in FileRoomIds : JoinRoom(c, roomId)
    \/ \E c \in Conns : DrawStart(c, c)
    \/ \E c \in Conns : DrawEnd(c, c)
    \/ \E c \in Conns : Disconnect(c)
    \/ \E roomId \in FileRoomIds : SaveTimerFires(roomId)

SpecFiles == Init /\ [][NextFiles]_vars

\* C39: persistence is keyed by room id without interference: a step that
\* writes the file of one room (the debounced save, the save on last leave)
\* leaves what load returns for every other room id as it was, so strokes saved
\* for one room id are never loaded for another.
C39_FilesKeyedByRoomId ==
    [][\A r1 \in FileRoomIds : \A r2 \in FileRoomIds \ {r1} :
          loadRoom(files', r1) # loadRoom(files, r1)
             => loadRoom(files', r2) = loadRoom(files, r2)]_vars

(***************************************************************************)
(* The room directory called directly: addUser, removeUser and deleteRoom  *)
(* of RoomManager in any order, for the sockets of Conns and one room id,  *)
(* until MaxJoins addUser calls have been made for the room.  joinLog      *)
(* counts the addUser calls of a room since createRoom made it.            *)
(***************************************************************************)
DirRoomIds == RoomIds

\* the join log of a room: of a room the directory does not hold, an empty one
JoinLogOf(roomId) ==
    IF MapHas(rmRooms, roomId) /\ MapHas(joinLog, roomId)
    THEN joinLog[roomId]
    ELSE [calls |-> 0, of |-> EmptyMap]

DirAddUser(roomId, socketId) ==
    /\ JoinLogOf(roomId).calls < MaxJoins
    /\ rmRooms' = addUser(rmRooms, roomId, socketId)
    /\ joinLog' = MapSet(joinLog, roomId,
                         [calls |-> JoinLogOf(roomId).calls + 1,
                          of |-> MapSet(JoinLogOf(roomId).of, socketId,
                                        JoinLogOf(roomId).calls + 1)])
    /\ UNCHANGED <<dsRooms, uuidCount, sockRoom, connected, files, saveTimeouts,
                   totalStrokes, sentPoints, undone, ioRooms, outbox, lastLeft>>
    /\ UNCHANGED clients
    /\ UNCHANGED clearLog

DirRemoveUser(roomId, socketId) ==
    /\ rmRooms' = removeUser(rmRooms, roomId, socketId)
    /\ joinLog' = IF MapHas(rmRooms, roomId)
                  THEN MapSet(joinLog, roomId,
                              [calls |-> JoinLogOf(roomId).calls,
                               of |-> MapDelete(JoinLogOf(roomId).of, socketId)])
                  ELSE joinLog
    /\ UNCHANGED <<dsRooms, uuidCount, sockRoom, connected, files, saveTimeouts,
                   totalStrokes, sentPoints, undone, ioRooms, outbox, lastLeft>>
    /\ UNCHANGED clients
    /\ UNCHANGED clearLog

DirDeleteRoom(roomId) ==
    /\ rmRooms' = deleteRoom(rmRooms, roomId)
    /\ joinLog' = MapDelete(joinLog, roomId)
    /\ UNCHANGED <<dsRooms, uuidCount, sockRoom, connected, files, saveTimeouts,
                   totalStrokes, sentPoints, undone, ioRooms, outbox, lastLeft>>
    /\ UNCHANGED clients
    /\ UNCHANGED clearLog

NextDirectory ==
    \/ \E roomId \in DirRoomIds, socketId \in Conns : DirAddUser(roomId, socketId)
    \/ \E roomId \in DirRoomIds, socketId \in Conns : DirRemoveUser(roomId, socketId)
    \/ \E roomId \in DirRoomIds : DirDeleteRoom(roomId)

SpecDirectory == Init /\ [][NextDirectory]_vars

\* C40: colour assignment is round-robin on a per-room counter that only
\* increases: the counter is the number of joins since the room's creation, the
\* user of the k-th join holds palette slot (k-1) mod 12 whatever left in
\* between, two members fewer than 12 joins apart hold different slots, and a
\* leave keeps the room and its counter.
C40_RoundRobinColours ==
    /\ [](\A r \in DOMAIN rmRooms :
             /\ rmRooms[r].colorIndex = JoinLogOf(r).calls
             /\ \A u \in getUsers(rmRooms, r) :
                   u.color = (JoinLogOf(r).of[u.id] - 1) % PaletteSize
             /\ \A u1 \in getUsers(rmRooms, r) : \A u2 \in getUsers(rmRooms, r) :
                   LET k1 == JoinLogOf(r).of[u1.id]
                       k2 == JoinLogOf(r).of[u2.id]
                   IN  (u1.id # u2.id /\ k1 - k2 < PaletteSize /\ k2 - k1 < PaletteSize)
                          => u1.color # u2.color)
    /\ [][\A r \in DOMAIN rmRooms :
             /\ MapHas(rmRooms', r) => rmRooms'[r].colorIndex >= rmRooms[r].colorIndex
             /\ \A c \in Conns :
                   DirRemoveUser(r, c)
                      => /\ MapHas(rmRooms', r)
                         /\ rmRooms'[r].colorIndex = rmRooms[r].colorIndex]_vars

\* the counter has gone round the palette: two members present together, the
\* first and the thirteenth join of the room, hold the same slot
C40_Witness ==
    \E r \in DOMAIN rmRooms :
        \E u1 \in getUsers(rmRooms, r) : \E u2 \in getUsers(rmRooms, r) :
            /\ JoinLogOf(r).of[u1.id] = 1
            /\ JoinLogOf(r).of[u2.id] = PaletteSize + 1
            /\ u1.color = u2.color

====
